---- MODULE Spec2Model ----
(***************************************************************************)
(* Model of the BuchService application core (create / update / delete     *)
(* with optimistic synchronisation via the version number __v) and of the  *)
(* document store it talks to.  Every store access of the service is an    *)
(* await, so each store access is one atomic step of a call; the           *)
(* synchronous code before an access belongs to the same step.             *)
(***************************************************************************)
EXTENDS Integers, Sequences, FiniteSets, TLC

VARIABLES store, nextId, call, ncalls, tokIn, tokOut

vars == <<store, nextId, call, ncalls, tokIn, tokOut>>

(***************************************************************************)
(* Bounds of the exploration.                                              *)
(***************************************************************************)
MaxCalls == 3
MaxConcCalls == 2
MaxTokenLen == 3

(***************************************************************************)
(* Input domains.                                                          *)
(***************************************************************************)
Procs == {"p1", "p2"}
SeqProcs == {"p1"}
Titles == {"Alpha", "Beta"}
Isbns == {"978-3897225831", "978-3827315526"}
Preise == {-1, 1}
\* the __v a candidate of create may carry
CandidateVersions == {0, 1}
TokenChars == {"0", "1", "-", "a", " "}

UndefinedId == -1

Undefined == [defined |-> FALSE, chars |-> <<>>]
Str(chars) == [defined |-> TRUE, chars |-> chars]

\* the version strings update() is called with
TokenInputs ==
    {Undefined, Str(<<"0">>), Str(<<"1">>), Str(<<"a">>), Str(<<"1", "a">>)}

RECURSIVE SeqsUpTo(_)
SeqsUpTo(n) ==
    IF n = 0 THEN {<<>>}
    ELSE LET shorter == SeqsUpTo(n - 1)
         IN  shorter \cup {Append(s, c) : s \in shorter, c \in TokenChars}

\* the version strings validateVersion() is applied to on its own
TokenStrings == {Undefined} \cup {Str(s) : s \in SeqsUpTo(MaxTokenLen)}

(***************************************************************************)
(* Number.parseInt(versionStr, 10): leading white space is skipped, an     *)
(* optional sign is read, then the longest prefix of decimal digits;       *)
(* the result is NaN when there is no digit.                               *)
(***************************************************************************)
Digits == {"0", "1", "2", "3", "4", "5", "6", "7", "8", "9"}

DigitVal(c) ==
    CASE c = "0" -> 0 [] c = "1" -> 1 [] c = "2" -> 2 [] c = "3" -> 3
      [] c = "4" -> 4 [] c = "5" -> 5 [] c = "6" -> 6 [] c = "7" -> 7
      [] c = "8" -> 8 [] c = "9" -> 9

RECURSIVE StripWs(_)
StripWs(s) ==
    IF s # <<>> /\ Head(s) = " " THEN StripWs(Tail(s)) ELSE s

RECURSIVE DigitPrefix(_)
DigitPrefix(s) ==
    IF s # <<>> /\ Head(s) \in Digits
    THEN <<Head(s)>> \o DigitPrefix(Tail(s))
    ELSE <<>>

RECURSIVE ToNumber(_, _)
ToNumber(ds, acc) ==
    IF ds = <<>> THEN acc ELSE ToNumber(Tail(ds), 10 * acc + DigitVal(Head(ds)))

NaN == [isNaN |-> TRUE, value |-> 0]

ParseInt(s) ==
    LET t == StripWs(s)
        neg == t # <<>> /\ Head(t) = "-"
        u == IF t # <<>> /\ Head(t) \in {"+", "-"} THEN Tail(t) ELSE t
        d == DigitPrefix(u)
    IN  IF d = <<>> THEN NaN
        ELSE [isNaN |-> FALSE,
              value |-> IF neg THEN 0 - ToNumber(d, 0) ELSE ToNumber(d, 0)]

(***************************************************************************)
(* The results of the service: the error classes and the success values.   *)
(***************************************************************************)
NoResult == [kind |-> "none"]
BuchInvalid(msg) == [kind |-> "BuchInvalid", msg |-> msg]
TitelExists(titel, id) == [kind |-> "TitelExists", titel |-> titel, id |-> id]
IsbnExists(isbn, id) == [kind |-> "IsbnExists", isbn |-> isbn, id |-> id]
BuchNotExists(id) == [kind |-> "BuchNotExists", id |-> id]
VersionInvalid(version) == [kind |-> "VersionInvalid", version |-> version]
VersionOutdated(id, version) ==
    [kind |-> "VersionOutdated", id |-> id, version |-> version]
Created(id) == [kind |-> "Created", id |-> id]
Updated(version) == [kind |-> "Updated", version |-> version]
Deleted(deleted) == [kind |-> "Deleted", deleted |-> deleted]
Ok == [kind |-> "ok"]
\* what findById resolves to: a document, or undefined
Found(buch) == [kind |-> "Buch", buch |-> buch]
NotFound == [kind |-> "undefined"]
\* the promise of the call is rejected with an error that was thrown
Rejected == [kind |-> "rejected"]

ErrorKinds ==
    {"BuchInvalid", "TitelExists", "IsbnExists", "BuchNotExists",
     "VersionInvalid", "VersionOutdated"}

\* result instanceof BuchServiceError
IsServiceError(r) == r.kind \in ErrorKinds

(***************************************************************************)
(* BuchService.validateVersion                                             *)
(***************************************************************************)
validateVersion(versionStr) ==
    IF ~versionStr.defined THEN VersionInvalid(versionStr)
    ELSE LET version == ParseInt(versionStr.chars)
         IN  IF version.isNaN THEN VersionInvalid(versionStr)
             ELSE [kind |-> "number", value |-> version.value]

(***************************************************************************)
(* validateBuch: the violated fields of a candidate, {} when it is valid.  *)
(***************************************************************************)
validateBuch(auto) ==
    IF auto.preis < 0 THEN {"preis"} ELSE {}

(***************************************************************************)
(* The document store: a function from the live ids to the documents.      *)
(***************************************************************************)
\* the store sets createdAt and updatedAt; their values play no part
Timestamp == "timestamp"

Doc(auto, v) ==
    [titel |-> auto.titel, isbn |-> auto.isbn, preis |-> auto.preis, v |-> v,
     createdAt |-> Timestamp, updatedAt |-> Timestamp]

Exists(s, id) == id \in DOMAIN s

FindById(s, id) == s[id]

ExistsTitel(s, titel) == \E i \in DOMAIN s : s[i].titel = titel

ExistsIsbn(s, isbn) == \E i \in DOMAIN s : s[i].isbn = isbn

\* the ids a findOne({titel}) may answer with; {UndefinedId} stands for null
FindOneTitel(s, titel) ==
    LET hits == {i \in DOMAIN s : s[i].titel = titel}
    IN  IF hits = {} THEN {UndefinedId} ELSE hits

\* insert of a new document: version 0 under the given, server-assigned id
Insert(s, id, auto) ==
    [i \in DOMAIN s \cup {id} |-> IF i = id THEN Doc(auto, 0) ELSE s[i]]

\* replace that also counts up the version of every other document
ReplaceById_touchAll(s, id, auto) ==
    [i \in DOMAIN s |->
       IF i = id THEN Doc(auto, s[id].v + 1)
       ELSE [s[i] EXCEPT !.v = @ + 1]]

\* replace of a live document: all fields of the candidate, version + 1
ReplaceById(s, id, auto) ==
    [s EXCEPT ![id] = Doc(auto, s[id].v + 1)]

DeleteById(s, id) == [i \in DOMAIN s \ {id} |-> s[i]]

\* checkIdAndVersion without the comparison of the versions
checkIdAndVersion_noVersion(s, id, version) ==
    IF ~Exists(s, id) THEN BuchNotExists(id) ELSE Ok

\* checkIdAndVersion accepting only the version that is stored
checkIdAndVersion_onlyEqual(s, id, version) ==
    IF ~Exists(s, id) THEN BuchNotExists(id)
    ELSE LET versionDb == FindById(s, id).v
         IN  IF version # versionDb THEN VersionOutdated(id, version)
             ELSE Ok

\* checkIdAndVersion comparing one off
checkIdAndVersion_offByOne(s, id, version) ==
    IF ~Exists(s, id) THEN BuchNotExists(id)
    ELSE LET versionDb == FindById(s, id).v
         IN  IF version + 1 < versionDb THEN VersionOutdated(id, version)
             ELSE Ok

(***************************************************************************)
(* BuchService.checkIdAndVersion                                           *)
(***************************************************************************)
checkIdAndVersion(s, id, version) ==
    IF ~Exists(s, id) THEN BuchNotExists(id)
    ELSE LET versionDb == FindById(s, id).v
         IN  IF version < versionDb THEN VersionOutdated(id, version)
             ELSE Ok

\* validateCreate without the lookup of the titel
validateCreateTitel_noLookup(s, auto) ==
    LET msg == validateBuch(auto)
    IN  IF msg # {} THEN BuchInvalid(msg) ELSE Ok

(***************************************************************************)
(* BuchService.validateCreate, first part: validateBuch and the lookup of  *)
(* the titel.                                                              *)
(***************************************************************************)
validateCreateTitel(s, auto) ==
    LET msg == validateBuch(auto)
    IN  IF msg # {} THEN BuchInvalid(msg)
        ELSE IF ExistsTitel(s, auto.titel)
             THEN TitelExists(auto.titel, UndefinedId)
             ELSE Ok

(***************************************************************************)
(* BuchService.validateCreate, second part: the lookup of the isbn.        *)
(***************************************************************************)
validateCreateIsbn(s, auto) ==
    IF ExistsIsbn(s, auto.isbn) THEN IsbnExists(auto.isbn, UndefinedId)
    ELSE Ok

\* validateUpdate without the lookup result of the titel
validateUpdateTitel_noTitel(found, auto, versionStr) ==
    LET result == validateVersion(versionStr)
        validationMsg == validateBuch(auto)
    IN  IF result.kind # "number" THEN result
        ELSE IF validationMsg # {} THEN BuchInvalid(validationMsg)
        ELSE IF auto.id = UndefinedId THEN BuchNotExists(UndefinedId)
        ELSE Ok

\* validateUpdate not comparing the id found with the id of the candidate
validateUpdateTitel_selfConflict(found, auto, versionStr) ==
    LET result == validateVersion(versionStr)
        validationMsg == validateBuch(auto)
    IN  IF result.kind # "number" THEN result
        ELSE IF validationMsg # {} THEN BuchInvalid(validationMsg)
        ELSE IF found # UndefinedId THEN TitelExists(auto.titel, found)
        ELSE IF auto.id = UndefinedId THEN BuchNotExists(UndefinedId)
        ELSE Ok

\* validateUpdate calling validateBuch before validateVersion
validateUpdateTitel_validationFirst(found, auto, versionStr) ==
    LET result == validateVersion(versionStr)
        validationMsg == validateBuch(auto)
    IN  IF validationMsg # {} THEN BuchInvalid(validationMsg)
        ELSE IF result.kind # "number" THEN result
        ELSE IF found # UndefinedId /\ found # auto.id
             THEN TitelExists(auto.titel, found)
        ELSE IF auto.id = UndefinedId THEN BuchNotExists(UndefinedId)
        ELSE Ok

(***************************************************************************)
(* BuchService.validateUpdate up to the test of auto._id; found is the id  *)
(* checkTitelExists got from findOne({titel}), UndefinedId for null.       *)
(***************************************************************************)
validateUpdateTitel(found, auto, versionStr) ==
    LET result == validateVersion(versionStr)
        validationMsg == validateBuch(auto)
    IN  IF result.kind # "number" THEN result
        ELSE IF validationMsg # {} THEN BuchInvalid(validationMsg)
        ELSE IF found # UndefinedId /\ found # auto.id
             THEN TitelExists(auto.titel, found)
        ELSE IF auto.id = UndefinedId THEN BuchNotExists(UndefinedId)
        ELSE Ok

\* update inserting the document when the id has no document
updateWrite_upsert(s, auto) ==
    LET written ==
           IF Exists(s, auto.id) THEN ReplaceById(s, auto.id, auto)
           ELSE Insert(s, auto.id, auto)
    IN  [store |-> written, res |-> Updated(FindById(written, auto.id).v)]

\* update writing the document twice
updateWrite_twice(s, auto) ==
    IF ~Exists(s, auto.id)
    THEN [store |-> s, res |-> BuchNotExists(auto.id)]
    ELSE LET written ==
                ReplaceById(ReplaceById(s, auto.id, auto), auto.id, auto)
         IN  [store |-> written,
              res |-> Updated(FindById(written, auto.id).v)]

(***************************************************************************)
(* The write of BuchService.update: findByIdAndUpdate and the result       *)
(* built from the document it gives back.                                  *)
(***************************************************************************)
updateWrite(s, auto) ==
    IF ~Exists(s, auto.id)
    THEN [store |-> s, res |-> BuchNotExists(auto.id)]
    ELSE LET written == ReplaceById(s, auto.id, auto)
         IN  [store |-> written,
              res |-> Updated(FindById(written, auto.id).v)]

(***************************************************************************)
(* deleteTimestamps: the document without createdAt and updatedAt.         *)
(***************************************************************************)
deleteTimestamps(buch) ==
    [f \in DOMAIN buch \ {"createdAt", "updatedAt"} |-> buch[f]]

\* findById answering with the document as stored
findById_keepTimestamps(s, id) ==
    IF ~Exists(s, id) THEN NotFound ELSE Found(FindById(s, id))

(***************************************************************************)
(* BuchService.findById                                                    *)
(***************************************************************************)
findById(s, id) ==
    IF ~Exists(s, id) THEN NotFound
    ELSE Found(deleteTimestamps(FindById(s, id)))

\* delete comparing the answer of the store with undefined, not with null
delete_notUndefined(s, id) ==
    [store |-> DeleteById(s, id), res |-> Deleted(TRUE)]

(***************************************************************************)
(* BuchService.delete: findByIdAndDelete and deleted !== null.             *)
(***************************************************************************)
delete(s, id) ==
    [store |-> DeleteById(s, id), res |-> Deleted(Exists(s, id))]

\* the outcomes of sending the mail
MailOutcomes == {"skipped", "sent", "failed"}

\* sendmail letting the error of a failed mail through
sendmail_rethrow(mail) ==
    IF mail = "failed" THEN "thrown" ELSE "returned"

(***************************************************************************)
(* BuchService.sendmail: how it ends for each outcome of the mail. It      *)
(* returns at once when the mail is skipped, and the catch block logs the  *)
(* error of a failed mail.                                                 *)
(***************************************************************************)
sendmail(mail) ==
    CASE mail = "skipped" -> "returned"
      [] mail = "sent"    -> "returned"
      [] mail = "failed"  -> "returned"

\* validateCreate asking the store before validateBuch
validateCreateLookups_lookupFirst(auto) == 1

\* the store lookups made when the first part of validateCreate is over:
\* none when validateBuch reports a violation, else exists({titel})
validateCreateLookups(auto) ==
    IF validateBuch(auto) # {} THEN 0 ELSE 1

\* the store lookups made when validateUpdate is past checkTitelExists:
\* none when validateVersion or validateBuch fails, else findOne({titel})
validateUpdateLookups(auto, versionStr) ==
    IF validateVersion(versionStr).kind # "number" THEN 0
    ELSE IF validateBuch(auto) # {} THEN 0
    ELSE 1

(***************************************************************************)
(* BuchRequestHandler: the response the handlers of create and update send *)
(* for what the service returned. status holds the name of the HttpStatus  *)
(* member.                                                                 *)
(***************************************************************************)
NoResponse == [status |-> "none"]

\* Number.prototype.toString of a natural number, as its decimal digits
RECURSIVE NumberToString(_)
NumberToString(n) ==
    LET digit == CHOOSE d \in Digits : DigitVal(d) = n % 10
    IN  IF n < 10 THEN <<digit>>
        ELSE NumberToString(n \div 10) \o <<digit>>

handleValidationError(msg) ==
    [status |-> "BAD_REQUEST", contentType |-> "application/json",
     body |-> msg]

\* the id is put into the message as it is, undefined included
handleTitelExists(titel, id) ==
    [status |-> "BAD_REQUEST", contentType |-> "text/plain",
     body |-> [msg |-> "Der Titel existiert bereits bei",
               titel |-> titel, id |-> id]]

handleIsbnExists(isbn, id) ==
    [status |-> "BAD_REQUEST", contentType |-> "text/plain",
     body |-> [msg |-> "Die ISBN-Nummer existiert bereits bei",
               isbn |-> isbn, id |-> id]]

\* no branch sends anything for another kind of error
handleCreateError(err) ==
    CASE err.kind = "BuchInvalid" -> handleValidationError(err.msg)
      [] err.kind = "TitelExists" -> handleTitelExists(err.titel, err.id)
      [] err.kind = "IsbnExists"  -> handleIsbnExists(err.isbn, err.id)
      [] OTHER -> NoResponse

handleUpdateError(err) ==
    CASE err.kind = "BuchInvalid" -> handleValidationError(err.msg)
      [] err.kind = "BuchNotExists" ->
            [status |-> "PRECONDITION_FAILED", contentType |-> "text/plain",
             body |-> [msg |-> "Es gibt kein Buch mit der ID",
                       id |-> err.id]]
      [] err.kind = "TitelExists" -> handleTitelExists(err.titel, err.id)
      [] err.kind = "VersionInvalid" ->
            [status |-> "PRECONDITION_REQUIRED",
             contentType |-> "text/plain",
             body |-> [msg |-> "Die Versionsnummer ist ungueltig",
                       version |-> err.version]]
      [] err.kind = "VersionOutdated" ->
            [status |-> "PRECONDITION_FAILED", contentType |-> "text/plain",
             body |-> [msg |-> "Die Versionsnummer ist nicht aktuell",
                       version |-> err.version]]
      [] OTHER -> NoResponse

\* BuchRequestHandler.create after service.create: a rejected call of the
\* service is not caught and nothing is sent
createResponse(result) ==
    IF IsServiceError(result) THEN handleCreateError(result)
    ELSE IF result.kind = "Created"
         THEN [status |-> "CREATED", location |-> result.id]
         ELSE NoResponse

\* BuchRequestHandler.update after service.update
updateResponse(result) ==
    IF IsServiceError(result) THEN handleUpdateError(result)
    ELSE IF result.kind = "Updated"
         THEN [status |-> "NO_CONTENT",
               etag |-> NumberToString(result.version)]
         ELSE NoResponse

\* a version between double quotes, as in `"${versionDb}"`
Quoted(chars) == <<"\"">> \o chars \o <<"\"">>

\* findById comparing If-None-Match with the version without quotes
findByIdResponse_unquoted(versionHeader, result) ==
    CASE result.kind = "rejected" -> [status |-> "INTERNAL_ERROR"]
      [] result.kind = "undefined" -> [status |-> "NOT_FOUND"]
      [] OTHER ->
           LET versionDb == result.buch.v
           IN  IF versionHeader = Str(NumberToString(versionDb))
               THEN [status |-> "NOT_MODIFIED"]
               ELSE [status |-> "OK", contentType |-> "application/json",
                     etag |-> Quoted(NumberToString(versionDb)),
                     body |-> result.buch]

\* BuchRequestHandler.findById after service.findById, for the header
\* If-None-Match of the request; a rejected call of the service is caught
findByIdResponse(versionHeader, result) ==
    CASE result.kind = "rejected" -> [status |-> "INTERNAL_ERROR"]
      [] result.kind = "undefined" -> [status |-> "NOT_FOUND"]
      [] OTHER ->
           LET versionDb == result.buch.v
           IN  IF versionHeader = Str(Quoted(NumberToString(versionDb)))
               THEN [status |-> "NOT_MODIFIED"]
               ELSE [status |-> "OK", contentType |-> "application/json",
                     etag |-> Quoted(NumberToString(versionDb)),
                     body |-> result.buch]

\* delete answering NOT_FOUND when the service returned false
deleteResponse_notFound(result) ==
    IF result.kind = "rejected" THEN [status |-> "INTERNAL_ERROR"]
    ELSE IF result.deleted THEN [status |-> "NO_CONTENT"]
    ELSE [status |-> "NOT_FOUND"]

\* BuchRequestHandler.delete after service.delete; a rejected call of the
\* service is caught
deleteResponse(result) ==
    IF result.kind = "rejected" THEN [status |-> "INTERNAL_ERROR"]
    ELSE [status |-> "NO_CONTENT"]

\* what the request handler sends when the call c of the service has
\* returned result
Respond(c, result) ==
    CASE c.op = "create" -> createResponse(result)
      [] c.op = "update" -> updateResponse(result)
      [] c.op = "delete" -> deleteResponse(result)
      [] c.op = "findById" ->
            findByIdResponse(c.request.ifNoneMatch, result)
      [] OTHER -> NoResponse

(***************************************************************************)
(* The GraphQL resolvers: what they return for what the service returned.  *)
(***************************************************************************)
ReturnsUndefined == [kind |-> "undefined"]

\* createBuch returns nothing for every BuchServiceError, else the id
createBuch(result) ==
    IF IsServiceError(result) THEN ReturnsUndefined ELSE result

\* updateBuch logs the result and returns it as it is
updateBuch(result) == result

deleteBuch(result) == result

\* what the resolver returns when the call of the service has returned;
\* the resolvers of the queries are not part of the model
Resolve(op, result) ==
    CASE op = "create" -> createBuch(result)
      [] op = "update" -> updateBuch(result)
      [] op = "delete" -> deleteBuch(result)
      [] OTHER -> NoResult

(***************************************************************************)
(* The calls in flight.                                                    *)
(***************************************************************************)
NoBuch ==
    [id |-> UndefinedId, titel |-> "", isbn |-> "", preis |-> 0, v |-> 0]

\* the headers of the request a call comes from; none is set when the
\* service is called without a request
NoRequest ==
    [contentType |-> "none", ifMatch |-> Undefined, ifNoneMatch |-> Undefined]

\* the query of a find without criteria: find treats an undefined query and
\* a query without entries alike
NoQuery == [titel |-> Undefined]

Idle ==
    [op |-> "none", auto |-> NoBuch, versionStr |-> Undefined, version |-> 0,
     request |-> NoRequest, query |-> NoQuery,
     pc |-> "idle", from |-> "idle", res |-> NoResult,
     lookups |-> 0, mail |-> "none", response |-> NoResponse,
     resolved |-> NoResult]

CanCall(p) == call[p].pc \in {"idle", "done"} /\ ncalls < MaxCalls

\* the call returns r; response is what the request handler then sends
\* and resolved what the resolver then returns; from keeps the step the
\* call returned from
Returned(c, r) ==
    [c EXCEPT !.pc = "done", !.from = c.pc, !.res = r,
              !.response = Respond(c, r),
              !.resolved = Resolve(c.op, r)]

At(c, pc) == [c EXCEPT !.pc = pc]

\* the call has made one more store lookup
Looked(c) == [c EXCEPT !.lookups = @ + 1]

\* the candidates of a request; v is the __v the candidate carries
Candidates(ids, vs) ==
    [id : ids, titel : Titles, isbn : Isbns, preis : Preise, v : vs]

\* the ids a client may name: every id handed out so far, and id 0 that no
\* document ever has
KnownIds == 0 .. (nextId - 1)

Init ==
    /\ store = [i \in {1} |->
                  [titel |-> "Alpha", isbn |-> "978-3897225831",
                   preis |-> 1, v |-> 0,
                   createdAt |-> Timestamp, updatedAt |-> Timestamp]]
    /\ nextId = 2
    /\ call = [p \in Procs |-> Idle]
    /\ ncalls = 0
    /\ tokIn = Undefined
    /\ tokOut = NoResult

(***************************************************************************)
(* BuchService.create                                                      *)
(***************************************************************************)
\* validateCreate up to the first store access, exists({titel}), for a
\* candidate out of autos, in a call that starts as base; the store access
\* goes as one of accesses says, and a store access that fails rejects the
\* call
CreateBeginFrom(p, base, autos, accesses) ==
    /\ CanCall(p)
    /\ \E auto \in autos, access \in accesses :
          LET c == [base EXCEPT !.op = "create", !.auto = auto,
                                !.lookups = validateCreateLookups(auto)]
              r == validateCreateTitel(store, auto)
          IN  call' = [call EXCEPT ![p] =
                 IF c.lookups > 0 /\ access = "fails"
                 THEN Returned(c, Rejected)
                 ELSE IF IsServiceError(r) THEN Returned(c, r)
                 ELSE At(c, "existsIsbn")]
    /\ ncalls' = ncalls + 1
    /\ UNCHANGED <<store, nextId, tokIn, tokOut>>

\* a call of the service on a store that works
CreateBeginOf(p, autos) == CreateBeginFrom(p, Idle, autos, {"ok"})

CreateBegin(p) ==
    CreateBeginOf(p, Candidates({UndefinedId}, CandidateVersions))

\* validateCreate saving the candidate before the lookup of the isbn
CreateExistsIsbn_saveFirst(p) ==
    /\ call[p].pc = "existsIsbn"
    /\ LET r == validateCreateIsbn(store, call[p].auto)
           c == Looked(call[p])
       IN  /\ call' = [call EXCEPT ![p] =
                 IF IsServiceError(r) THEN Returned(c, r)
                 ELSE At(c, "save")]
           /\ store' = IF IsServiceError(r)
                       THEN Insert(store, nextId, call[p].auto)
                       ELSE store
           /\ nextId' = IF IsServiceError(r) THEN nextId + 1 ELSE nextId
    /\ UNCHANGED <<ncalls, tokIn, tokOut>>

\* validateCreate: exists({isbn})
CreateExistsIsbn(p) ==
    /\ call[p].pc = "existsIsbn"
    /\ LET r == validateCreateIsbn(store, call[p].auto)
           c == Looked(call[p])
       IN  call' = [call EXCEPT ![p] =
              IF IsServiceError(r) THEN Returned(c, r) ELSE At(c, "save")]
    /\ UNCHANGED <<store, nextId, ncalls, tokIn, tokOut>>

\* save giving the new document the lowest id no live document has
CreateSave_reuseId(p) ==
    /\ call[p].pc = "save"
    /\ LET id == CHOOSE i \in 1 .. nextId :
                    /\ ~Exists(store, i)
                    /\ \A j \in 1 .. (i - 1) : Exists(store, j)
       IN  /\ store' = Insert(store, id, call[p].auto)
           /\ nextId' = IF id = nextId THEN nextId + 1 ELSE nextId
           /\ call' = [call EXCEPT ![p] =
                 [call[p] EXCEPT !.pc = "sendmail", !.res = Created(id)]]
    /\ UNCHANGED <<ncalls, tokIn, tokOut>>

\* save under the id the candidate carries, when it carries one
CreateSave_candidateId(p) ==
    /\ call[p].pc = "save"
    /\ LET id == IF call[p].auto.id = UndefinedId THEN nextId
                 ELSE call[p].auto.id
       IN  /\ store' = Insert(store, id, call[p].auto)
           /\ nextId' = IF id = nextId THEN nextId + 1 ELSE nextId
           /\ call' = [call EXCEPT ![p] =
                 [call[p] EXCEPT !.pc = "sendmail", !.res = Created(id)]]
    /\ UNCHANGED <<ncalls, tokIn, tokOut>>

\* new BuchModel(auto).save()
CreateSave(p) ==
    /\ call[p].pc = "save"
    /\ store' = Insert(store, nextId, call[p].auto)
    /\ nextId' = nextId + 1
    /\ call' = [call EXCEPT ![p] =
          [call[p] EXCEPT !.pc = "sendmail", !.res = Created(nextId)]]
    /\ UNCHANGED <<ncalls, tokIn, tokOut>>

\* sendmail(auto), then return id
CreateSendmail(p) ==
    /\ call[p].pc = "sendmail"
    /\ \E mail \in MailOutcomes :
          LET c == [call[p] EXCEPT !.mail = mail]
          IN  call' = [call EXCEPT ![p] =
                 IF sendmail(mail) = "thrown" THEN Returned(c, Rejected)
                 ELSE Returned(c, c.res)]
    /\ UNCHANGED <<store, nextId, ncalls, tokIn, tokOut>>

(***************************************************************************)
(* BuchService.update                                                      *)
(***************************************************************************)
\* validateUpdate up to the first store access, checkTitelExists, and the
\* test of auto._id that follows it
UpdateBeginFrom(p, base, autos, versionStrs, accesses) ==
    /\ CanCall(p)
    /\ \E auto \in autos, versionStr \in versionStrs, access \in accesses :
          LET c == [base EXCEPT
                      !.op = "update", !.auto = auto,
                      !.versionStr = versionStr,
                      !.lookups = validateUpdateLookups(auto, versionStr)]
          IN  \E found \in FindOneTitel(store, auto.titel) :
                 LET r == validateUpdateTitel(found, auto, versionStr)
                 IN  call' = [call EXCEPT ![p] =
                        IF c.lookups > 0 /\ access = "fails"
                        THEN Returned(c, Rejected)
                        ELSE IF IsServiceError(r) THEN Returned(c, r)
                        ELSE [c EXCEPT
                                !.version = validateVersion(versionStr).value,
                                !.pc = "checkIdAndVersion"]]
    /\ ncalls' = ncalls + 1
    /\ UNCHANGED <<store, nextId, tokIn, tokOut>>

\* a call of the service on a store that works
UpdateBeginOf(p, autos, versionStrs) ==
    UpdateBeginFrom(p, Idle, autos, versionStrs, {"ok"})

\* update takes the version from versionStr and does not read the __v of
\* the candidate
UpdateBegin(p) ==
    UpdateBeginOf(p, Candidates(KnownIds \cup {UndefinedId}, {0}),
                  TokenInputs)

\* checkIdAndVersion and the write as one store access (a conditional write)
UpdateCheckIdAndVersion_andWrite(p) ==
    /\ call[p].pc = "checkIdAndVersion"
    /\ LET r == checkIdAndVersion(store, call[p].auto.id, call[p].version)
           w == updateWrite(store, call[p].auto)
       IN  /\ store' = IF IsServiceError(r) THEN store ELSE w.store
           /\ call' = [call EXCEPT ![p] =
                 Returned(Looked(call[p]),
                          IF IsServiceError(r) THEN r ELSE w.res)]
    /\ UNCHANGED <<nextId, ncalls, tokIn, tokOut>>

\* validateUpdate: checkIdAndVersion
UpdateCheckIdAndVersion(p) ==
    /\ call[p].pc = "checkIdAndVersion"
    /\ LET r == checkIdAndVersion(store, call[p].auto.id, call[p].version)
           c == Looked(call[p])
       IN  call' = [call EXCEPT ![p] =
              IF IsServiceError(r) THEN Returned(c, r)
              ELSE At(c, "findByIdAndUpdate")]
    /\ UNCHANGED <<store, nextId, ncalls, tokIn, tokOut>>

\* findByIdAndUpdate and the return of the new version
UpdateWrite(p) ==
    /\ call[p].pc = "findByIdAndUpdate"
    /\ LET w == updateWrite(store, call[p].auto)
       IN  /\ store' = w.store
           /\ call' = [call EXCEPT ![p] = Returned(call[p], w.res)]
    /\ UNCHANGED <<nextId, ncalls, tokIn, tokOut>>

(***************************************************************************)
(* BuchService.delete                                                      *)
(***************************************************************************)
Delete(p) ==
    /\ CanCall(p)
    /\ \E id \in KnownIds :
          LET d == delete(store, id)
          IN  /\ store' = d.store
              /\ call' = [call EXCEPT ![p] =
                    Returned([Idle EXCEPT !.op = "delete", !.auto.id = id],
                             d.res)]
    /\ ncalls' = ncalls + 1
    /\ UNCHANGED <<nextId, tokIn, tokOut>>

(***************************************************************************)
(* BuchService.findById                                                    *)
(***************************************************************************)
FindByIdCall(p) ==
    /\ CanCall(p)
    /\ \E id \in KnownIds :
          call' = [call EXCEPT ![p] =
             Returned([Idle EXCEPT !.op = "findById", !.auto.id = id,
                                   !.lookups = 1],
                      findById(store, id))]
    /\ ncalls' = ncalls + 1
    /\ UNCHANGED <<store, nextId, tokIn, tokOut>>

Step(p) ==
    \/ CreateBegin(p)
    \/ CreateExistsIsbn(p)
    \/ CreateSave(p)
    \/ CreateSendmail(p)
    \/ UpdateBegin(p)
    \/ UpdateCheckIdAndVersion(p)
    \/ UpdateWrite(p)
    \/ Delete(p)
    \/ FindByIdCall(p)

\* the calls run one at a time
Next == \E p \in SeqProcs : Step(p)

Spec == Init /\ [][Next]_vars

\* the store accesses of the calls of several requests interleave
NextConc ==
    \E p \in Procs :
       /\ CanCall(p) => ncalls < MaxConcCalls
       /\ Step(p)

SpecConc == Init /\ [][NextConc]_vars

(***************************************************************************)
(* Properties.                                                             *)
(***************************************************************************)
\* p takes a step of its call
Acts(p) == call'[p] # call[p]

\* p's call returns in this step
Returns(p) == Acts(p) /\ call'[p].pc = "done"

\* some other live document holds the titel of the candidate
TitelHeldByOther(s, auto) ==
    \E j \in DOMAIN s \ {auto.id} : s[j].titel = auto.titel

\* an update of a live document whose version string, validation and
\* titel check pass
UpdatePassesChecks(c, s) ==
    /\ c.op = "update"
    /\ Exists(s, c.auto.id)
    /\ validateVersion(c.versionStr).kind = "number"
    /\ validateBuch(c.auto) = {}
    /\ ~TitelHeldByOther(s, c.auto)

\* C1: run one at a time, an update of a live document with stored version
\* s, a version string that parses to v >= s, a valid candidate and a titel
\* no other document holds returns Updated(s+1), and the document read by
\* findById right after has version s+1.
C1_UpdateAccepted ==
    [][\A p \in Procs :
          (/\ Returns(p)
           /\ UpdatePassesChecks(call'[p], store)
           /\ validateVersion(call'[p].versionStr).value
                 >= FindById(store, call'[p].auto.id).v)
          => LET id == call'[p].auto.id
             IN  /\ call'[p].res = Updated(FindById(store, id).v + 1)
                 /\ Exists(store', id)
                 /\ FindById(store', id).v = FindById(store, id).v + 1]_vars

\* an update given a version newer than the stored one has returned Updated
C1_Witness ==
    \E p \in Procs :
       /\ call[p].pc = "done" /\ call[p].op = "update"
       /\ call[p].res.kind = "Updated"
       /\ call[p].version >= call[p].res.version
       /\ Exists(store, call[p].auto.id)
       /\ FindById(store, call[p].auto.id).v = call[p].res.version

\* C2: run one at a time, an update of a live document with stored version
\* s whose version string parses to v < s (validation and titel check
\* passing) returns VersionOutdated(id, v), and no step of it writes to the
\* store.
C2_UpdateOutdated ==
    [][\A p \in Procs :
          (/\ Acts(p)
           /\ UpdatePassesChecks(call'[p], store)
           /\ validateVersion(call'[p].versionStr).value
                 < FindById(store, call'[p].auto.id).v)
          => /\ store' = store
             /\ call'[p].pc = "done"
                  => call'[p].res =
                        VersionOutdated(call'[p].auto.id,
                           validateVersion(call'[p].versionStr).value)]_vars

\* an update with a stale version has returned VersionOutdated
C2_Witness ==
    \E p \in Procs :
       /\ call[p].pc = "done" /\ call[p].op = "update"
       /\ call[p].res.kind = "VersionOutdated"
       /\ call[p].res.id = call[p].auto.id
       /\ Exists(store, call[p].auto.id)
       /\ FindById(store, call[p].auto.id).v > call[p].res.version

\* C3: in every execution, interleaved ones included, the stored version of
\* an id never decreases from one state to the next, an id that left the
\* store does not come back, and every update returning Updated raises the
\* stored version of its id by exactly 1 and returns that version.
C3_VersionMonotonic ==
    [][/\ \A id \in DOMAIN store \cap DOMAIN store' :
             FindById(store', id).v >= FindById(store, id).v
       /\ \A id \in DOMAIN store' \ DOMAIN store : id >= nextId
       /\ \A p \in Procs :
             (Returns(p) /\ call'[p].res.kind = "Updated")
             => LET id == call'[p].auto.id
                IN  /\ Exists(store, id) /\ Exists(store', id)
                    /\ FindById(store', id).v = FindById(store, id).v + 1
                    /\ call'[p].res.version = FindById(store', id).v]_vars

\* two updates of one id have been accepted
C3_Witness ==
    \E p \in Procs :
       /\ call[p].pc = "done" /\ call[p].op = "update"
       /\ call[p].res.kind = "Updated"
       /\ call[p].res.version >= 2
       /\ FindById(store, call[p].auto.id).v = call[p].res.version

\* C4: with the calls run one at a time, no two live documents have the
\* same titel.
C4_TitelUnique ==
    \A i, j \in DOMAIN store :
       i # j => FindById(store, i).titel # FindById(store, j).titel

\* an update asking for the titel of another live document was turned down
C4_Witness ==
    /\ Cardinality(DOMAIN store) >= 2
    /\ \E p \in Procs :
          /\ call[p].pc = "done" /\ call[p].op = "update"
          /\ call[p].res.kind = "TitelExists"
          /\ Exists(store, call[p].auto.id)

\* C5: with the calls run one at a time, no two live documents have the
\* same isbn; an accepted update cannot give a document the isbn of
\* another live document.
C5_IsbnUnique ==
    \A i, j \in DOMAIN store :
       i # j => FindById(store, i).isbn # FindById(store, j).isbn

\* the version string is absent or is not a decimal numeral
NonNumeric(versionStr) ==
    \/ ~versionStr.defined
    \/ versionStr.chars = <<>>
    \/ \E i \in 1 .. Len(versionStr.chars) : versionStr.chars[i] \notin Digits

\* C6: an update called with a version string that is absent or has
\* non-numeric content returns VersionInvalid, whatever the candidate, and
\* no step of it writes to the store.
C6_NonNumericVersionInvalid ==
    [][\A p \in Procs :
          (Acts(p) /\ call'[p].op = "update"
                   /\ NonNumeric(call'[p].versionStr))
          => /\ store' = store
             /\ call'[p].pc = "done"
             /\ call'[p].res = VersionInvalid(call'[p].versionStr)]_vars

\* C7: validateVersion gives VersionInvalid(versionStr) or a non-negative
\* integer, and the integer is the number the whole version string denotes.
C7_VersionIsWholeToken ==
    \/ tokOut = NoResult
    \/ tokOut = VersionInvalid(tokIn)
    \/ /\ tokOut.kind = "number"
       /\ tokOut.value >= 0
       /\ ~NonNumeric(tokIn)
       /\ tokOut.value = ToNumber(tokIn.chars, 0)

\* C8: the currency check and the write of update are two store accesses,
\* and the write is not conditional on the version: the check step writes
\* nothing, and the write step of an update that passed the check replaces
\* a live document whatever version is stored by then.  Two updates of one
\* id that both present the stored version can therefore both pass the
\* check and both return Updated.
C8_CheckThenWrite ==
    [][\A p \in Procs :
          /\ (Acts(p) /\ call[p].pc = "checkIdAndVersion")
             => /\ store' = store
                /\ checkIdAndVersion(store, call[p].auto.id,
                                      call[p].version) = Ok
                     => call'[p].pc = "findByIdAndUpdate"
          /\ (Acts(p) /\ call[p].pc = "findByIdAndUpdate"
                      /\ Exists(store, call[p].auto.id))
             => /\ call'[p].res.kind = "Updated"
                /\ FindById(store', call[p].auto.id).v
                     = FindById(store, call[p].auto.id).v + 1]_vars

\* two updates of one id, both given the version that was stored, have both
\* returned Updated: the second one wrote over a version newer than its own
C8_Witness ==
    \E p, q \in Procs :
       /\ p # q
       /\ call[p].op = "update" /\ call[q].op = "update"
       /\ call[p].pc = "done" /\ call[q].pc = "done"
       /\ call[p].auto.id = call[q].auto.id
       /\ call[p].versionStr = call[q].versionStr
       /\ call[p].res.kind = "Updated" /\ call[q].res.kind = "Updated"
       /\ call[p].res.version = call[p].version + 1
       /\ call[q].res.version = call[q].version + 2

\* C9: an update whose document was deleted after its currency check and
\* before its write returns BuchNotExists(id), and the write does not
\* create the document again.
C9_DeletedBeforeWrite ==
    [][\A p \in Procs :
          (Acts(p) /\ call[p].pc = "findByIdAndUpdate"
                   /\ ~Exists(store, call[p].auto.id))
          => /\ call'[p].pc = "done"
             /\ call'[p].res = BuchNotExists(call[p].auto.id)
             /\ ~Exists(store', call[p].auto.id)
             /\ store' = store]_vars

\* an update returned BuchNotExists from its write, after a delete of the
\* same id removed the document
C9_Witness ==
    \E p, q \in Procs :
       /\ p # q
       /\ call[p].op = "update" /\ call[p].pc = "done"
       /\ call[p].from = "findByIdAndUpdate"
       /\ call[p].res = BuchNotExists(call[p].auto.id)
       /\ call[q].op = "delete" /\ call[q].pc = "done"
       /\ call[q].auto.id = call[p].auto.id
       /\ call[q].res = Deleted(TRUE)
       /\ ~Exists(store, call[p].auto.id)

\* p starts a call in this step
Begins(p) == Acts(p) /\ call[p].pc \in {"idle", "done"}

\* the steps of a create for which Candidate(auto) holds: with the titel of
\* a live document it returns TitelExists, with a fresh titel and the isbn
\* of a live document it returns IsbnExists, and the store is not changed
CreateConflicts(p, Candidate(_)) ==
    (call'[p].op = "create" /\ Candidate(call'[p].auto))
    => LET auto == call'[p].auto
       IN  /\ (Begins(p) /\ ExistsTitel(store, auto.titel))
              => /\ call'[p].pc = "done"
                 /\ call'[p].res.kind = "TitelExists"
                 /\ call'[p].res.titel = auto.titel
                 /\ store' = store
           /\ (Begins(p) /\ ~ExistsTitel(store, auto.titel)
                         /\ ExistsIsbn(store, auto.isbn))
              => /\ call'[p].pc = "existsIsbn"
                 /\ store' = store
           /\ (Acts(p) /\ call[p].pc = "existsIsbn"
                       /\ ExistsIsbn(store, auto.isbn))
              => /\ call'[p].pc = "done"
                 /\ call'[p].res.kind = "IsbnExists"
                 /\ call'[p].res.isbn = auto.isbn
                 /\ store' = store

AnyCandidate(auto) == TRUE

ValidCandidate(auto) == validateBuch(auto) = {}

\* C10 as stated: a create whose candidate has the titel of a live document
\* returns TitelExists, one with a fresh titel and the isbn of a live
\* document returns IsbnExists, and no document is added.
C10_CreateConflictAnyCandidate ==
    [][\A p \in Procs : CreateConflicts(p, AnyCandidate)]_vars

\* C10 as amended: the same for a create whose candidate passes validateBuch.
C10_CreateConflictValidCandidate ==
    [][\A p \in Procs : CreateConflicts(p, ValidCandidate)]_vars

\* a create with a fresh titel and the isbn of a live document has returned
\* IsbnExists
C10_Witness ==
    \E p \in Procs :
       /\ call[p].op = "create" /\ call[p].pc = "done"
       /\ call[p].res.kind = "IsbnExists"
       /\ ~ExistsTitel(store, call[p].auto.titel)
       /\ ExistsIsbn(store, call[p].auto.isbn)

\* C11: a create that has returned TitelExists or IsbnExists carries the
\* conflicting value and the id of a live document holding that value.
C11_CreateConflictCarriesId ==
    \A p \in Procs :
       (/\ call[p].op = "create" /\ call[p].pc = "done"
        /\ call[p].res.kind \in {"TitelExists", "IsbnExists"})
       => LET r == call[p].res
          IN  /\ Exists(store, r.id)
              /\ r.kind = "TitelExists" =>
                    /\ r.titel = call[p].auto.titel
                    /\ FindById(store, r.id).titel = r.titel
              /\ r.kind = "IsbnExists" =>
                    /\ r.isbn = call[p].auto.isbn
                    /\ FindById(store, r.id).isbn = r.isbn

\* C12: run one at a time, an update whose version string and candidate
\* are valid returns TitelExists from its first step exactly when a live
\* document with another id holds the titel of the candidate; the
\* TitelExists then names the titel and that document, and the store is
\* unchanged.
C12_UpdateTitelCheck ==
    [][\A p \in Procs :
          (/\ Begins(p)
           /\ call'[p].op = "update"
           /\ validateVersion(call'[p].versionStr).kind = "number"
           /\ validateBuch(call'[p].auto) = {})
          => LET c == call'[p]
                 rejected == c.pc = "done" /\ c.res.kind = "TitelExists"
             IN  /\ rejected <=> TitelHeldByOther(store, c.auto)
                 /\ rejected =>
                       /\ store' = store
                       /\ c.res.titel = c.auto.titel
                       /\ c.res.id # c.auto.id
                       /\ Exists(store, c.res.id)
                       /\ FindById(store, c.res.id).titel = c.auto.titel]_vars

\* an update of a live document to the titel of another live document has
\* returned TitelExists naming that other document
C12_Witness ==
    \E p \in Procs :
       /\ call[p].op = "update" /\ call[p].pc = "done"
       /\ call[p].res.kind = "TitelExists"
       /\ Exists(store, call[p].auto.id)
       /\ FindById(store, call[p].auto.id).titel # call[p].auto.titel
       /\ Exists(store, call[p].res.id)
       /\ call[p].res.id # call[p].auto.id
       /\ FindById(store, call[p].res.id).titel = call[p].auto.titel

\* the result the checks of update give in their order: version string,
\* validation, titel, id, existence, version
ExpectedUpdate(s, auto, versionStr) ==
    LET result == validateVersion(versionStr)
    IN  IF result.kind # "number" THEN "VersionInvalid"
        ELSE IF validateBuch(auto) # {} THEN "BuchInvalid"
        ELSE IF TitelHeldByOther(s, auto) THEN "TitelExists"
        ELSE IF auto.id = UndefinedId THEN "BuchNotExists"
        ELSE IF ~Exists(s, auto.id) THEN "BuchNotExists"
        ELSE IF result.value < FindById(s, auto.id).v THEN "VersionOutdated"
        ELSE "Updated"

\* the result the checks of create give in their order: validation, titel,
\* isbn
ExpectedCreate(s, auto) ==
    IF validateBuch(auto) # {} THEN "BuchInvalid"
    ELSE IF ExistsTitel(s, auto.titel) THEN "TitelExists"
    ELSE IF ExistsIsbn(s, auto.isbn) THEN "IsbnExists"
    ELSE "Created"

\* C13: run one at a time, an update returns the failure of the earliest
\* failing check in the order version string, validation, titel, id,
\* existence and version, and writes only in its last step when every check
\* passed; a create returns the failure of the earliest failing check in
\* the order validation, titel, isbn, and writes only in its save step
\* when every check passed.
C13_ChecksInOrder ==
    [][\A p \in Procs :
          /\ (Returns(p) /\ call'[p].op = "update")
             => LET c == call'[p]
                IN  /\ c.res.kind =
                          ExpectedUpdate(store, c.auto, c.versionStr)
                    /\ c.res.kind = "BuchNotExists" => c.res.id = c.auto.id
          /\ (Acts(p) /\ call'[p].op = "update" /\ store' # store)
             => /\ call[p].pc = "findByIdAndUpdate"
                /\ ExpectedUpdate(store, call[p].auto, call[p].versionStr)
                      = "Updated"
          /\ (Begins(p) /\ call'[p].op = "create")
             => LET c == call'[p]
                    e == ExpectedCreate(store, c.auto)
                IN  IF e \in {"BuchInvalid", "TitelExists"}
                    THEN c.pc = "done" /\ c.res.kind = e
                    ELSE c.pc = "existsIsbn"
          /\ (Acts(p) /\ call[p].pc = "existsIsbn")
             => IF ExistsIsbn(store, call[p].auto.isbn)
                THEN /\ call'[p].pc = "done"
                     /\ call'[p].res.kind = "IsbnExists"
                ELSE call'[p].pc = "save"
          /\ (Acts(p) /\ call'[p].op = "create" /\ store' # store)
             => /\ call[p].pc = "save"
                /\ call'[p].res.kind = "Created"]_vars

\* an update with an invalid candidate whose titel another live document
\* holds has returned BuchInvalid, the earlier of the two failures
C13_Witness ==
    \E p \in Procs :
       /\ call[p].op = "update" /\ call[p].pc = "done"
       /\ call[p].res.kind = "BuchInvalid"
       /\ validateVersion(call[p].versionStr).kind = "number"
       /\ TitelHeldByOther(store, call[p].auto)
       /\ call[p].auto.id = UndefinedId

\* C14: run one at a time, a create, or an update with a version string
\* that validateVersion accepts, whose candidate violates a constraint
\* returns from its first step BuchInvalid with exactly the report of
\* validateBuch, having made no store lookup and leaving the store as it is.
C14_InvalidCandidate ==
    [][\A p \in Procs :
          (/\ Begins(p)
           /\ call'[p].op \in {"create", "update"}
           /\ validateBuch(call'[p].auto) # {}
           /\ call'[p].op = "update"
                 => validateVersion(call'[p].versionStr).kind = "number")
          => /\ call'[p].pc = "done"
             /\ call'[p].res = BuchInvalid(validateBuch(call'[p].auto))
             /\ call'[p].lookups = 0
             /\ store' = store]_vars

\* an update with an invalid candidate whose titel another live document
\* holds has returned BuchInvalid with the report, after no lookup
C14_Witness ==
    \E p \in Procs :
       /\ call[p].op = "update" /\ call[p].pc = "done"
       /\ call[p].res = BuchInvalid({"preis"})
       /\ call[p].lookups = 0
       /\ call[p].from = "idle"
       /\ validateVersion(call[p].versionStr).kind = "number"
       /\ TitelHeldByOther(store, call[p].auto)
       /\ Exists(store, call[p].auto.id)

\* C15: run one at a time, a findById of the id a create has just returned
\* answers with a document of version 0 whose other fields are those of the
\* candidate of the create, whatever __v the candidate carried, and that
\* has no createdAt and no updatedAt.
C15_CreateThenFindById ==
    [][\A p \in Procs :
          (/\ Returns(p)
           /\ call'[p].op = "findById"
           /\ call[p].op = "create" /\ call[p].pc = "done"
           /\ call[p].res.kind = "Created"
           /\ call'[p].auto.id = call[p].res.id)
          => call'[p].res =
                Found([titel |-> call[p].auto.titel,
                       isbn |-> call[p].auto.isbn,
                       preis |-> call[p].auto.preis,
                       v |-> 0])]_vars

\* the findById that follows the first create, of the id that create got,
\* has answered with a document of version 0 without timestamps
C15_Witness ==
    \E p \in Procs :
       /\ call[p].op = "findById" /\ call[p].pc = "done"
       /\ ncalls = 2 /\ nextId = 3
       /\ call[p].auto.id = 2
       /\ call[p].res.kind = "Buch"
       /\ call[p].res.buch.v = 0
       /\ DOMAIN call[p].res.buch = {"titel", "isbn", "preis", "v"}
       /\ "createdAt" \in DOMAIN FindById(store, 2)

\* C16: run one at a time, delete(id) of an id no document has returns
\* Deleted(FALSE) and leaves the store as it is; delete(id) of a live
\* document returns Deleted(TRUE), removes that document and no other, and
\* findById(id) is undefined afterwards. So a delete of an id deleted before
\* returns Deleted(FALSE), not an error.
C16_Delete ==
    [][\A p \in Procs :
          (ncalls' = ncalls + 1 /\ call'[p].op = "delete")
          => LET id == call'[p].auto.id
             IN  /\ call'[p].pc = "done"
                 /\ IF Exists(store, id)
                    THEN /\ call'[p].res = Deleted(TRUE)
                         /\ findById(store', id) = NotFound
                         /\ DOMAIN store' = DOMAIN store \ {id}
                         /\ \A j \in DOMAIN store' : store'[j] = store[j]
                    ELSE /\ call'[p].res = Deleted(FALSE)
                         /\ store' = store]_vars

\* a delete of an id that was live before and is deleted has returned
\* Deleted(FALSE)
C16_Witness ==
    \E p \in Procs :
       /\ call[p].op = "delete" /\ call[p].pc = "done"
       /\ call[p].res = Deleted(FALSE)
       /\ call[p].auto.id \in 1 .. (nextId - 1)
       /\ ~Exists(store, call[p].auto.id)

\* the ids handed out that no document has any more: every id from 1 to
\* nextId - 1 was live once, and only a delete returning Deleted(TRUE)
\* takes a document out of the store
DeletedIds == {i \in 1 .. (nextId - 1) : ~Exists(store, i)}

\* C17: run one at a time, an id that was deleted stays deleted: no step
\* makes it live again, findById of it is undefined, and every update of it
\* returns a failure, BuchNotExists(id) when its version string, validation
\* and titel check pass.
C17_DeletionTerminal ==
    [][\A id \in DeletedIds :
          /\ ~Exists(store', id)
          /\ findById(store', id) = NotFound
          /\ \A p \in Procs :
                (/\ Returns(p)
                 /\ call'[p].op = "update"
                 /\ call'[p].auto.id = id)
                => LET c == call'[p]
                   IN  /\ IsServiceError(c.res)
                       /\ (/\ validateVersion(c.versionStr).kind = "number"
                           /\ validateBuch(c.auto) = {}
                           /\ ~TitelHeldByOther(store, c.auto))
                          => c.res = BuchNotExists(id)]_vars

\* a document was created and a document deleted, and an update of the
\* deleted id that passes the checks before has returned BuchNotExists
C17_Witness ==
    \E p \in Procs :
       /\ call[p].op = "update" /\ call[p].pc = "done"
       /\ call[p].auto.id \in DeletedIds
       /\ call[p].res = BuchNotExists(call[p].auto.id)
       /\ call[p].from = "checkIdAndVersion"
       /\ nextId > 2

\* C19: run one at a time, the step of create that sends the mail returns
\* the Created(id) set when the document was saved and leaves the store,
\* with that document in it, as it is, whether the mail is skipped, sent
\* or fails; and once the document is saved the call holds Created(id).
C19_MailNeverChangesCreate ==
    [][\A p \in Procs :
          /\ (Acts(p) /\ call[p].pc = "save")
             => /\ call'[p].res = Created(nextId)
                /\ Exists(store', nextId)
          /\ (Acts(p) /\ call[p].pc = "sendmail")
             => /\ call'[p].pc = "done"
                /\ call'[p].mail \in MailOutcomes
                /\ call'[p].res = call[p].res
                /\ call'[p].res.kind = "Created"
                /\ store' = store
                /\ Exists(store', call'[p].res.id)]_vars

\* a create whose mail failed has returned Created(id), and the document
\* is in the store
C19_Witness ==
    \E p \in Procs :
       /\ call[p].op = "create" /\ call[p].pc = "done"
       /\ call[p].mail = "failed"
       /\ call[p].res.kind = "Created"
       /\ Exists(store, call[p].res.id)
       /\ FindById(store, call[p].res.id).titel = call[p].auto.titel

(***************************************************************************)
(* The scenario of the Alpha record: create it, rename it to Alpha2 with   *)
(* version "0", update it once more with version "0". The calls run one    *)
(* at a time on a store that has no document of the titel Alpha.           *)
(***************************************************************************)
AlphaBuch ==
    [id |-> UndefinedId, titel |-> "Alpha", isbn |-> "978-3897225831",
     preis |-> 1, v |-> 0]

ScenarioStoreIds == {1, 2}

\* the documents the store may hold before the scenario
ScenarioDocs ==
    {Doc([titel |-> t, isbn |-> i, preis |-> 1], v) :
        t \in {"Alpha2", "Beta"}, i \in Isbns, v \in {0, 1}}

\* the stores before the scenario: no titel twice, no titel Alpha
ScenarioStores ==
    {s \in UNION {[ids -> ScenarioDocs] : ids \in SUBSET ScenarioStoreIds} :
        \A i, j \in DOMAIN s : s[i].titel = s[j].titel => i = j}

InitScenario ==
    /\ store \in ScenarioStores
    /\ nextId = Cardinality(ScenarioStoreIds) + 1
    /\ call = [p \in Procs |-> Idle]
    /\ ncalls = 0
    /\ tokIn = Undefined
    /\ tokOut = NoResult

ScenarioCreate ==
    /\ ncalls = 0
    /\ CreateBeginOf("p1", {AlphaBuch})

ScenarioRename ==
    /\ ncalls = 1
    /\ call["p1"].res.kind = "Created"
    /\ UpdateBeginOf("p1",
          {[AlphaBuch EXCEPT !.id = call["p1"].res.id, !.titel = "Alpha2"]},
          {Str(<<"0">>)})

ScenarioRepeat ==
    /\ ncalls = 2
    /\ UpdateBeginOf("p1", {[AlphaBuch EXCEPT !.id = call["p1"].auto.id]},
                     {Str(<<"0">>)})

NextScenario ==
    \/ ScenarioCreate
    \/ ScenarioRename
    \/ ScenarioRepeat
    \/ CreateExistsIsbn("p1")
    \/ CreateSave("p1")
    \/ CreateSendmail("p1")
    \/ UpdateCheckIdAndVersion("p1")
    \/ UpdateWrite("p1")

SpecScenario == InitScenario /\ [][NextScenario]_vars

\* what the calls of the scenario that have returned so far have returned:
\* the create Created(id1), the first update Updated(1), the second update
\* VersionOutdated(id1, 0) with the stored version still 1
ScenarioTrace ==
    LET c == call["p1"]
    IN  c.pc = "done"
        => /\ ncalls = 1
              => /\ c.res.kind = "Created"
                 /\ Exists(store, c.res.id)
                 /\ FindById(store, c.res.id).v = 0
           /\ ncalls = 2
              => /\ c.res = Updated(1)
                 /\ FindById(store, c.auto.id).v = 1
                 /\ FindById(store, c.auto.id).titel = "Alpha2"
           /\ ncalls = 3
              => /\ c.res = VersionOutdated(c.auto.id, 0)
                 /\ FindById(store, c.auto.id).v = 1

\* none of the documents that were in the store before the scenario has
\* the titel Alpha or Alpha2 or the isbn of the Alpha record; the scenario
\* does not change these documents
ScenarioStoreFree ==
    \A j \in DOMAIN store \cap ScenarioStoreIds :
       /\ store[j].titel \notin {"Alpha", "Alpha2"}
       /\ store[j].isbn # AlphaBuch.isbn

\* C18 as stated: from every store without the titel Alpha the calls of
\* the scenario return Created(id1), Updated(1), VersionOutdated(id1, 0),
\* and the stored version stays 1.
C18_ScenarioFromStoreWithoutAlpha == ScenarioTrace

\* C18: from a store in which no document has the titel Alpha or Alpha2 or
\* the isbn of the Alpha record, the calls of the scenario return
\* Created(id1), Updated(1), VersionOutdated(id1, 0), and the stored
\* version stays 1.
C18_ScenarioFromFreeStore == ScenarioStoreFree => ScenarioTrace

\* the second update of the scenario has returned VersionOutdated(id1, 0)
\* on a store that held another document before; the record has version 1
\* and the titel Alpha2
C18_Witness ==
    LET c == call["p1"]
    IN  /\ ncalls = 3 /\ c.pc = "done" /\ c.op = "update"
        /\ c.auto.id \notin ScenarioStoreIds
        /\ c.res = VersionOutdated(c.auto.id, 0)
        /\ ScenarioStoreFree
        /\ DOMAIN store \cap ScenarioStoreIds # {}
        /\ FindById(store, c.auto.id).v = 1
        /\ FindById(store, c.auto.id).titel = "Alpha2"

\* the response the translation of a result is said to give: the status,
\* and as detail the report, a message with the value and the id of a live
\* document holding it, the id of the new document, or the new version
TranslatedAsSaid(c) ==
    LET r == c.res
        x == c.response
    IN  CASE r.kind = "BuchInvalid" ->
               x.status = "BAD_REQUEST" /\ x.body = r.msg
          [] r.kind = "TitelExists" ->
               /\ x.status = "BAD_REQUEST"
               /\ x.body.titel = c.auto.titel
               /\ Exists(store, x.body.id)
               /\ FindById(store, x.body.id).titel = c.auto.titel
          [] r.kind = "IsbnExists" ->
               /\ x.status = "BAD_REQUEST"
               /\ x.body.isbn = c.auto.isbn
               /\ Exists(store, x.body.id)
               /\ FindById(store, x.body.id).isbn = c.auto.isbn
          [] r.kind = "BuchNotExists" -> x.status = "PRECONDITION_FAILED"
          [] r.kind = "VersionInvalid" -> x.status = "PRECONDITION_REQUIRED"
          [] r.kind = "VersionOutdated" -> x.status = "PRECONDITION_FAILED"
          [] r.kind = "Created" ->
               x.status = "CREATED" /\ x.location = r.id
          [] r.kind = "Updated" ->
               /\ x.status = "NO_CONTENT"
               /\ x.etag = NumberToString(r.version)
          [] OTHER -> FALSE

\* C20: run one at a time, the response to a create or update that has
\* returned is given by the kind of its result: BuchInvalid a BAD_REQUEST
\* with the report; TitelExists and IsbnExists a BAD_REQUEST with a message
\* naming the value and the id of the document holding it; BuchNotExists
\* and VersionOutdated PRECONDITION_FAILED; VersionInvalid
\* PRECONDITION_REQUIRED; Created CREATED with the id; Updated NO_CONTENT
\* with the new version.
C20_TranslationByKind ==
    \A p \in Procs :
       (call[p].pc = "done" /\ call[p].op \in {"create", "update"})
       => TranslatedAsSaid(call[p])

\* what a client can tell from a response: the status and either that the
\* body is a report or the text of the message
RestTold(x) ==
    IF x.status = "none" THEN <<"none", "none">>
    ELSE IF x.contentType = "application/json" THEN <<x.status, "report">>
    ELSE <<x.status, x.body.msg>>

\* C21: run one at a time, two calls of create, or two of update, one
\* after the other, that return failures of different kinds are told apart
\* by what the resolver returns and by the response of the request handler.
C21_FailureKindsToldApart ==
    [][\A p \in Procs :
          (/\ Returns(p)
           /\ call[p].pc = "done"
           /\ call'[p].op = call[p].op
           /\ call[p].op \in {"create", "update"}
           /\ IsServiceError(call[p].res)
           /\ IsServiceError(call'[p].res)
           /\ call'[p].res.kind # call[p].res.kind)
          => /\ RestTold(call'[p].response) # RestTold(call[p].response)
             /\ call'[p].resolved.kind # call[p].resolved.kind]_vars

(***************************************************************************)
(* The requests of the REST interface: BuchRequestHandler reads the        *)
(* headers, calls the service and sends the response. The calls run one    *)
(* at a time, and a store access may fail.                                 *)
(***************************************************************************)
MaxRestCalls == 2

ContentTypes == {"application/json", "text/plain"}

\* the values of the header If-Match: none, quoted versions, quoted text
\* that is no number or only starts with one, and a version without quotes
IfMatchHeaders ==
    {Undefined, Str(Quoted(<<"0">>)), Str(Quoted(<<"1">>)),
     Str(Quoted(<<"a">>)), Str(Quoted(<<"1", "a">>)), Str(<<"0">>),
     Str(<<"1">>)}

IfNoneMatchHeaders ==
    {Undefined, Str(Quoted(<<"0">>)), Str(Quoted(<<"1">>)), Str(<<"0">>),
     Str(<<"1">>)}

\* how a store access goes
StoreAccesses == {"ok", "fails"}

\* the request handler has answered without a call of the service
Answered(c, response) == [c EXCEPT !.pc = "done", !.response = response]

\* res.status(status) without a send: the status is set, nothing is sent
StatusSet(status) == [status |-> "none", statusSet |-> status]

(***************************************************************************)
(* BuchRequestHandler.getVersionHeader: the response it sends, or the      *)
(* header without its first and last character.                            *)
(***************************************************************************)
getVersionHeader(versionHeader) ==
    IF ~versionHeader.defined
    THEN [kind |-> "response",
          response |-> [status |-> "PRECONDITION_REQUIRED",
                        contentType |-> "text/plain",
                        body |-> [msg |-> "Versionsnummer fehlt"]]]
    ELSE IF Len(versionHeader.chars) < 3
    THEN [kind |-> "response",
          response |-> [status |-> "PRECONDITION_FAILED",
                        contentType |-> "text/plain",
                        body |-> [msg |-> "Ungueltige Versionsnummer",
                                  versionHeader |-> versionHeader]]]
    ELSE [kind |-> "version",
          version |-> Str(SubSeq(versionHeader.chars, 2,
                                 Len(versionHeader.chars) - 1))]

\* BuchRequestHandler.create, Content-Type is not JSON
RestCreateNotAcceptable(p) ==
    /\ CanCall(p)
    /\ \E contentType \in ContentTypes \ {"application/json"} :
          call' = [call EXCEPT ![p] =
             Answered([Idle EXCEPT !.op = "create",
                                   !.request.contentType = contentType],
                      [status |-> "NOT_ACCEPTABLE"])]
    /\ ncalls' = ncalls + 1
    /\ UNCHANGED <<store, nextId, tokIn, tokOut>>

\* BuchRequestHandler.create: the body is the candidate, with the _id it
\* may carry
RestCreate(p) ==
    CreateBeginFrom(p,
       [Idle EXCEPT !.request.contentType = "application/json"],
       Candidates(KnownIds \cup {UndefinedId}, CandidateVersions),
       StoreAccesses)

\* BuchRequestHandler.update, Content-Type is not JSON
RestUpdateNotAcceptable(p) ==
    /\ CanCall(p)
    /\ \E contentType \in ContentTypes \ {"application/json"},
          id \in KnownIds :
          call' = [call EXCEPT ![p] =
             Answered([Idle EXCEPT !.op = "update", !.auto.id = id,
                                   !.request.contentType = contentType],
                      StatusSet("NOT_ACCEPTABLE"))]
    /\ ncalls' = ncalls + 1
    /\ UNCHANGED <<store, nextId, tokIn, tokOut>>

\* BuchRequestHandler.update, getVersionHeader has sent the response
RestUpdateNoVersion(p) ==
    /\ CanCall(p)
    /\ \E ifMatch \in IfMatchHeaders, id \in KnownIds :
          LET version == getVersionHeader(ifMatch)
          IN  /\ version.kind = "response"
              /\ call' = [call EXCEPT ![p] =
                    Answered([Idle EXCEPT
                                !.op = "update", !.auto.id = id,
                                !.request.contentType = "application/json",
                                !.request.ifMatch = ifMatch],
                             version.response)]
    /\ ncalls' = ncalls + 1
    /\ UNCHANGED <<store, nextId, tokIn, tokOut>>

\* BuchRequestHandler.update: the candidate gets the id of the path, the
\* version string is what getVersionHeader returned
RestUpdate(p) ==
    \E ifMatch \in IfMatchHeaders, id \in KnownIds :
       LET version == getVersionHeader(ifMatch)
       IN  /\ version.kind = "version"
           /\ UpdateBeginFrom(p,
                 [Idle EXCEPT !.request.contentType = "application/json",
                              !.request.ifMatch = ifMatch],
                 Candidates({id}, {0}), {version.version}, StoreAccesses)

\* BuchRequestHandler.delete
RestDelete(p) ==
    /\ CanCall(p)
    /\ \E id \in KnownIds, access \in StoreAccesses :
          LET c == [Idle EXCEPT !.op = "delete", !.auto.id = id]
              d == delete(store, id)
          IN  IF access = "fails"
              THEN /\ store' = store
                   /\ call' = [call EXCEPT ![p] = Returned(c, Rejected)]
              ELSE /\ store' = d.store
                   /\ call' = [call EXCEPT ![p] = Returned(c, d.res)]
    /\ ncalls' = ncalls + 1
    /\ UNCHANGED <<nextId, tokIn, tokOut>>

\* BuchRequestHandler.findById
RestFindById(p) ==
    /\ CanCall(p)
    /\ \E id \in KnownIds, ifNoneMatch \in IfNoneMatchHeaders,
          access \in StoreAccesses :
          LET c == [Idle EXCEPT !.op = "findById", !.auto.id = id,
                                !.request.ifNoneMatch = ifNoneMatch,
                                !.lookups = 1]
          IN  call' = [call EXCEPT ![p] =
                 IF access = "fails" THEN Returned(c, Rejected)
                 ELSE Returned(c, findById(store, id))]
    /\ ncalls' = ncalls + 1
    /\ UNCHANGED <<store, nextId, tokIn, tokOut>>

\* the store access a call in flight waits for fails: the call is rejected
StoreFailure(p) ==
    /\ call[p].pc \in
          {"existsIsbn", "save", "checkIdAndVersion", "findByIdAndUpdate"}
    /\ call' = [call EXCEPT ![p] = Returned(call[p], Rejected)]
    /\ UNCHANGED <<store, nextId, ncalls, tokIn, tokOut>>

RestStep(p) ==
    \/ RestCreateNotAcceptable(p)
    \/ RestCreate(p)
    \/ RestUpdateNotAcceptable(p)
    \/ RestUpdateNoVersion(p)
    \/ RestUpdate(p)
    \/ RestDelete(p)
    \/ RestFindById(p)
    \/ CreateExistsIsbn(p)
    \/ CreateSave(p)
    \/ CreateSendmail(p)
    \/ UpdateCheckIdAndVersion(p)
    \/ UpdateWrite(p)
    \/ StoreFailure(p)

NextRest ==
    \E p \in SeqProcs :
       /\ CanCall(p) => ncalls < MaxRestCalls
       /\ RestStep(p)

SpecRest == Init /\ [][NextRest]_vars

\* p starts a call of op in this step; the calls run one at a time
Calls(p, op) == ncalls' = ncalls + 1 /\ call'[p].op = op

\* C22: a REST delete whose store access does not fail is answered
\* NO_CONTENT, when the document was removed and when there was none.
C22_RestDeleteNoContent ==
    [][\A p \in SeqProcs :
          (Calls(p, "delete") /\ call'[p].res.kind # "rejected")
          => /\ call'[p].pc = "done"
             /\ call'[p].res = Deleted(Exists(store, call'[p].auto.id))
             /\ call'[p].response = [status |-> "NO_CONTENT"]]_vars

\* a REST delete of an id without document has been answered NO_CONTENT
C22_Witness ==
    \E p \in SeqProcs :
       /\ call[p].op = "delete" /\ call[p].pc = "done"
       /\ call[p].res = Deleted(FALSE)
       /\ call[p].response.status = "NO_CONTENT"

\* C23: a REST read by id whose store access does not fail is answered
\* NOT_FOUND when no document has the id; NOT_MODIFIED without body exactly
\* when If-None-Match is the stored version between double quotes; and else
\* OK with the document and the stored version between double quotes as
\* ETag.
C23_RestFindById ==
    [][\A p \in SeqProcs :
          (Calls(p, "findById") /\ call'[p].res.kind # "rejected")
          => LET id == call'[p].auto.id
                 x == call'[p].response
             IN  IF ~Exists(store, id) THEN x = [status |-> "NOT_FOUND"]
                 ELSE LET current ==
                             Quoted(NumberToString(FindById(store, id).v))
                      IN  IF call'[p].request.ifNoneMatch = Str(current)
                          THEN x = [status |-> "NOT_MODIFIED"]
                          ELSE /\ x.status = "OK"
                               /\ x.etag = current
                               /\ x.body =
                                    deleteTimestamps(FindById(store, id))]_vars

\* a REST read of a document updated once, with If-None-Match "1", has
\* been answered NOT_MODIFIED
C23_Witness ==
    \E p \in SeqProcs :
       /\ call[p].op = "findById" /\ call[p].pc = "done"
       /\ call[p].response = [status |-> "NOT_MODIFIED"]
       /\ call[p].request.ifNoneMatch = Str(Quoted(<<"1">>))
       /\ FindById(store, call[p].auto.id).v = 1

\* the header If-Match is a natural number between double quotes
WellFormed(versionHeader) ==
    /\ versionHeader.defined
    /\ LET chars == versionHeader.chars
       IN  /\ Len(chars) >= 3
           /\ chars[1] = "\"" /\ chars[Len(chars)] = "\""
           /\ \A i \in 2 .. (Len(chars) - 1) : chars[i] \in Digits

\* C24: a REST update without If-Match is answered PRECONDITION_REQUIRED
\* without a call of the service, and no step of a REST update whose
\* If-Match is absent or not well-formed writes to the store or is answered
\* NO_CONTENT.
C24_RestUpdateNeedsVersion ==
    [][\A p \in SeqProcs :
          (/\ Acts(p)
           /\ call'[p].op = "update"
           /\ call'[p].request.contentType = "application/json"
           /\ ~WellFormed(call'[p].request.ifMatch))
          => /\ store' = store
             /\ call'[p].pc = "done"
                   => call'[p].response.status # "NO_CONTENT"
             /\ ~call'[p].request.ifMatch.defined
                   => /\ call'[p].pc = "done"
                      /\ call'[p].res = NoResult
                      /\ call'[p].lookups = 0
                      /\ call'[p].response.status
                            = "PRECONDITION_REQUIRED"]_vars

\* C25: a REST request whose store access has failed is answered
\* INTERNAL_ERROR.
C25_StoreFailureIsServerFault ==
    \A p \in SeqProcs :
       (call[p].pc = "done" /\ call[p].res.kind = "rejected")
       => call[p].response = [status |-> "INTERNAL_ERROR"]


\* C26: the step of a create that changes the store or sets the result
\* Created adds one document under an id no document had, also when the
\* candidate carries the id of a document, keeps every document the store
\* had as it was, and the result is Created with that id.
C26_CreateAddsOneDocument ==
    [][\A p \in SeqProcs :
          (/\ Acts(p)
           /\ call'[p].op = "create"
           /\ \/ store' # store
              \/ call'[p].res.kind = "Created" /\ call[p].res.kind # "Created")
          => \E id \in DOMAIN store' \ DOMAIN store :
                /\ DOMAIN store' = DOMAIN store \cup {id}
                /\ \A i \in DOMAIN store : store'[i] = store[i]
                /\ store'[id] = Doc(call'[p].auto, 0)
                /\ call'[p].res = Created(id)]_vars

\* a REST create of a candidate carrying the id of a live document has
\* returned Created and that document is still in the store
C26_Witness ==
    \E p \in SeqProcs :
       /\ call[p].op = "create" /\ call[p].pc = "done"
       /\ call[p].res.kind = "Created"
       /\ call[p].auto.id # call[p].res.id
       /\ Exists(store, call[p].auto.id)
       /\ Exists(store, call[p].res.id)

FailureKinds ==
    {"BuchInvalid", "TitelExists", "IsbnExists", "BuchNotExists",
     "VersionInvalid", "VersionOutdated"}

\* C27: a step of a create or update that changes the store sets the result
\* Created or Updated, and the call then returns that result; so a create
\* or update that returns a failure kind has made no change to the store.
C27_FailureLeavesStore ==
    [][\A p \in SeqProcs :
          (Acts(p) /\ call'[p].op \in {"create", "update"})
          => /\ store' # store
                   => /\ call'[p].res.kind \in {"Created", "Updated"}
                      /\ call'[p].res.kind \notin FailureKinds
             /\ call[p].pc = "sendmail"
                   => call'[p].pc = "done" /\ call'[p].res = call[p].res
             /\ (call'[p].pc = "done"
                   /\ call'[p].res.kind \in FailureKinds)
                   => store' = store]_vars

\* a create has returned IsbnExists and an update VersionOutdated, each
\* after its lookups in the store
C27_Witness ==
    \E p \in SeqProcs :
       /\ call[p].pc = "done"
       /\ \/ call[p].op = "create" /\ call[p].res.kind = "IsbnExists"
          \/ call[p].op = "update" /\ call[p].res.kind = "VersionOutdated"
       /\ call[p].lookups = 2

\* C28: the step of an update that returns Updated keeps the set of ids of
\* the store, writes the candidate under its id and keeps every other
\* document with all its fields and its version.
C28_UpdateChangesOneDocument ==
    [][\A p \in SeqProcs :
          (/\ Acts(p)
           /\ call'[p].op = "update"
           /\ call'[p].pc = "done"
           /\ call'[p].res.kind = "Updated")
          => LET id == call'[p].auto.id
             IN  /\ DOMAIN store' = DOMAIN store
                 /\ id \in DOMAIN store
                 /\ store'[id] = Doc(call'[p].auto, store[id].v + 1)
                 /\ \A i \in DOMAIN store \ {id} : store'[i] = store[i]]_vars

\* an update has returned Updated in a store with another document
C28_Witness ==
    \E p \in SeqProcs :
       /\ call[p].op = "update" /\ call[p].pc = "done"
       /\ call[p].res.kind = "Updated"
       /\ \E i \in DOMAIN store : i # call[p].auto.id


\* the create of p has returned or is about to return Created, and the
\* document it saved is in the store as it was saved
CreatedLive(p) ==
    /\ call[p].op = "create"
    /\ call[p].res.kind = "Created"
    /\ Exists(store, call[p].res.id)
    /\ FindById(store, call[p].res.id) = Doc(call[p].auto, 0)

\* C29: no two creates whose store accesses interleave both return Created
\* for documents that are both in the store with the same titel or the
\* same isbn.
C29_ConcurrentCreatesUnique ==
    \A p, q \in Procs :
       (p # q /\ CreatedLive(p) /\ CreatedLive(q))
       => /\ call[p].auto.titel # call[q].auto.titel
          /\ call[p].auto.isbn # call[q].auto.isbn

(***************************************************************************)
(* BuchService.find                                                        *)
(***************************************************************************)
\* the characters of the titel of a document
TitelChars(titel) ==
    CASE titel = "Alpha" -> <<"A", "l", "p", "h", "a">>
      [] titel = "Beta" -> <<"B", "e", "t", "a">>
      [] titel = "Alpha2" -> <<"A", "l", "p", "h", "a", "2">>
      [] OTHER -> <<>>

\* the characters of the titels and queries in the order of their codes
CodeOrder ==
    <<".", "2", "A", "B", "H", "L", "P", "a", "b", "e", "h", "l", "p", "t",
      "x">>

Code(c) == CHOOSE i \in 1 .. Len(CodeOrder) : CodeOrder[i] = c

\* the flag i of the regular expression: letters match in either case
Lower(c) ==
    CASE c = "A" -> "a"
      [] c = "B" -> "b"
      [] c = "H" -> "h"
      [] c = "L" -> "l"
      [] c = "P" -> "p"
      [] OTHER -> c

\* one character of the pattern against one character of the titel; the
\* point of a regular expression matches every character
MatchesChar(pc, c) == pc = "." \/ Lower(pc) = Lower(c)

\* new RegExp(pattern, 'iu') finds a match somewhere in text
RegExpTest(pattern, text) ==
    \E start \in 1 .. (Len(text) + 1) :
       /\ start + Len(pattern) - 1 <= Len(text)
       /\ \A k \in 1 .. Len(pattern) :
             MatchesChar(pattern[k], text[start + k - 1])

\* sort('titel'): the titels compared character by character
RECURSIVE TitelLess(_, _)
TitelLess(s, t) ==
    IF t = <<>> THEN FALSE
    ELSE IF s = <<>> THEN TRUE
    ELSE IF Head(s) # Head(t) THEN Code(Head(s)) < Code(Head(t))
    ELSE TitelLess(Tail(s), Tail(t))

\* the ids in ascending order, the order the store returns documents in
\* when the query names no sort
RECURSIVE ById(_)
ById(ids) ==
    IF ids = {} THEN <<>>
    ELSE LET first == CHOOSE i \in ids : \A j \in ids : i <= j
         IN  <<first>> \o ById(ids \ {first})

\* sort('titel'): the ids of s in the order of the titels, documents with
\* the same titel by id
RECURSIVE ByTitel(_, _)
ByTitel(s, ids) ==
    IF ids = {} THEN <<>>
    ELSE LET less(i, j) ==
                TitelLess(TitelChars(s[i].titel), TitelChars(s[j].titel))
             first == CHOOSE i \in ids :
                         \A j \in ids \ {i} :
                            less(i, j) \/ (~less(j, i) /\ i < j)
         IN  <<first>> \o ByTitel(s, ids \ {first})

\* a document as find returns it: lean() with _id, after deleteTimestamps
Lean(s, id) == [id |-> id, buch |-> deleteTimestamps(FindById(s, id))]

Autos(autos) == [kind |-> "autos", autos |-> autos]

\* find: without criteria all documents sorted by titel; with a titel of
\* less than 10 characters the documents the regular expression of the
\* titel matches, and with a longer titel no condition on the titel; the
\* timestamps deleted from every document
find(s, query) ==
    LET hits == {i \in DOMAIN s :
                    \/ Len(query.titel.chars) >= 10
                    \/ RegExpTest(query.titel.chars, TitelChars(s[i].titel))}
        ids == IF ~query.titel.defined THEN ByTitel(s, DOMAIN s)
               ELSE ById(hits)
    IN  Autos([k \in 1 .. Len(ids) |-> Lean(s, ids[k])])

\* the titels a client asks for: in either case, a part, the whole and more
\* than a titel, the empty string, a point, and strings of 9 and 10
\* characters
FindTitels ==
    {<<>>, <<"a">>, <<"A">>, <<"L", "P", "H">>, <<"e", "t">>, <<"x">>,
     <<"b", "e", "t", "a">>, <<"a", "l", "p", "h", "a", "2">>, <<".">>,
     <<"a", "l", "p", "h", "a", "a", "l", "p", "h">>,
     <<"a", "l", "p", "h", "a", "a", "l", "p", "h", "a">>}

FindQueries == {NoQuery} \cup {[titel |-> Str(t)] : t \in FindTitels}

FindCall(p) ==
    /\ CanCall(p)
    /\ \E query \in FindQueries :
          call' = [call EXCEPT ![p] =
             Returned([Idle EXCEPT !.op = "find", !.query = query,
                                   !.lookups = 1],
                      find(store, query))]
    /\ ncalls' = ncalls + 1
    /\ UNCHANGED <<store, nextId, tokIn, tokOut>>

\* the calls of the service one at a time, find among them
NextFind == \E p \in SeqProcs : Step(p) \/ FindCall(p)

SpecFind == Init /\ [][NextFind]_vars

\* text contains part, letters compared in either case
Contains(text, part) ==
    \E start \in 1 .. (Len(text) + 1) :
       /\ start + Len(part) - 1 <= Len(text)
       /\ \A k \in 1 .. Len(part) :
             Lower(part[k]) = Lower(text[start + k - 1])

\* the ids of the documents a find returned
FoundIds(res) == {res.autos[k].id : k \in 1 .. Len(res.autos)}

\* C30: a find with a titel returns the documents of the store whose titel
\* contains it, letters in either case, and no other; a find without
\* criteria returns every document; every document returned is the stored
\* one without createdAt and updatedAt.
C30_FindByTitel ==
    \A p \in SeqProcs :
       (call[p].op = "find" /\ call[p].pc = "done")
       => LET query == call[p].query
              res == call[p].res
          IN  /\ FoundIds(res) =
                   IF ~query.titel.defined THEN DOMAIN store
                   ELSE {i \in DOMAIN store :
                           Contains(TitelChars(store[i].titel),
                                    query.titel.chars)}
              /\ Len(res.autos) = Cardinality(FoundIds(res))
              /\ \A k \in 1 .. Len(res.autos) :
                    /\ DOMAIN res.autos[k].buch
                          \cap {"createdAt", "updatedAt"} = {}
                    /\ res.autos[k].buch =
                          deleteTimestamps(store[res.autos[k].id])


\* the last request of p was answered with a header ETag for the document
\* id: a REST update that returned Updated or a REST read answered OK
SentETag(p, id) ==
    /\ call[p].pc = "done"
    /\ call[p].op \in {"update", "findById"}
    /\ call[p].auto.id = id
    /\ call[p].response.status \in {"NO_CONTENT", "OK"}

\* C31: when the ETag a REST update or a REST read of a document sent is
\* the If-Match of the next request, a REST update of that document, the
\* update is not answered PRECONDITION_REQUIRED or PRECONDITION_FAILED,
\* does not return VersionInvalid and goes on with the stored version; when
\* it is the If-None-Match of the next request, a REST read of that
\* document, the read is answered NOT_MODIFIED.
C31_ETagRoundTrip ==
    [][\A p \in SeqProcs :
          /\ (/\ SentETag(p, call'[p].auto.id)
              /\ Calls(p, "update")
              /\ call'[p].request.contentType = "application/json"
              /\ call'[p].request.ifMatch = Str(call[p].response.etag)
              /\ call'[p].res.kind # "rejected")
             => /\ call'[p].response.status \notin
                      {"PRECONDITION_REQUIRED", "PRECONDITION_FAILED"}
                /\ call'[p].res.kind # "VersionInvalid"
                /\ call'[p].pc = "checkIdAndVersion"
                      => call'[p].version
                            = FindById(store, call'[p].auto.id).v
          /\ (/\ SentETag(p, call'[p].auto.id)
              /\ Calls(p, "findById")
              /\ call'[p].request.ifNoneMatch = Str(call[p].response.etag)
              /\ call'[p].res.kind # "rejected")
             => call'[p].response = [status |-> "NOT_MODIFIED"]]_vars


\* C32: every REST create, update, delete and read by id that has returned
\* without a failed store access has sent a response.
C32_ResponseSent ==
    \A p \in SeqProcs :
       (/\ call[p].pc = "done"
        /\ call[p].op \in {"create", "update", "delete", "findById"}
        /\ call[p].res.kind # "rejected")
       => call[p].response.status # "none"

(***************************************************************************)
(* validateVersion on its own, applied to every short version string.      *)
(***************************************************************************)
InitToken ==
    /\ store = [i \in {1} |->
                  [titel |-> "Alpha", isbn |-> "978-3897225831",
                   preis |-> 1, v |-> 0,
                   createdAt |-> Timestamp, updatedAt |-> Timestamp]]
    /\ nextId = 2
    /\ call = [p \in Procs |-> Idle]
    /\ ncalls = 0
    /\ tokIn \in TokenStrings
    /\ tokOut = NoResult

ValidateVersionStep ==
    /\ tokOut = NoResult
    /\ tokOut' = validateVersion(tokIn)
    /\ UNCHANGED <<store, nextId, call, ncalls, tokIn>>

NextToken == ValidateVersionStep

SpecToken == InitToken /\ [][NextToken]_vars
====
